---- MODULE Spec2Model ----
(***************************************************************************)
(* Model of export_folder_structure.py: main() checks the start path,      *)
(* redirects sys.stdout to the output file, prints the root line and lets  *)
(* generate_tree() walk the directory depth first.                         *)
(*                                                                         *)
(* A string is the sequence of its Unicode code points, so that lower(),   *)
(* the comparison of sort keys and the four-character prefix tokens are    *)
(* computed character by character.                                        *)
(***************************************************************************)
EXTENDS Integers, Sequences, FiniteSets, TLC

\* ------------------------------------------------------------------ bounds
MaxNodes == 3
MaxDenied == 1
MaxRemoved == 1
MaxRuns == 2

\* --------------------------------------------------------------- strings
\* names used by the trees of the model
nA == <<65>>
na == <<97>>
nB == <<66>>
n_a_txt == <<97, 46, 116, 120, 116>>
n_b_txt == <<98, 46, 116, 120, 116>>
n_git == <<46, 103, 105, 116>>
n_gitignore == <<46, 103, 105, 116, 105, 103, 110, 111, 114, 101>>
n_sock == <<115>>
n_root == <<112>>
n_src == <<115, 114, 99>>
n_main_py == <<109, 97, 105, 110, 46, 112, 121>>
n_README_md == <<82, 69, 65, 68, 77, 69, 46, 109, 100>>

\* "__pycache__", ".git", ".vscode", "node_modules", "venv", ".venv", ".idea"
DEFAULT_IGNORE_DIRS ==
    { <<95, 95, 112, 121, 99, 97, 99, 104, 101, 95, 95>>,
      <<46, 103, 105, 116>>,
      <<46, 118, 115, 99, 111, 100, 101>>,
      <<110, 111, 100, 101, 95, 109, 111, 100, 117, 108, 101, 115>>,
      <<118, 101, 110, 118>>,
      <<46, 118, 101, 110, 118>>,
      <<46, 105, 100, 101, 97>> }

\* ".DS_Store", ".gitignore"
DEFAULT_IGNORE_FILES ==
    { <<46, 68, 83, 95, 83, 116, 111, 114, 101>>,
      <<46, 103, 105, 116, 105, 103, 110, 111, 114, 101>> }

\* the connectors of generate_tree: "    ", "├── ", "└── " and the inline "│   "
space == <<32, 32, 32, 32>>
branch == <<9500, 9472, 9472, 32>>
last_branch == <<9492, 9472, 9472, 32>>
bar == <<9474, 32, 32, 32>>

\* "📂 ", "📄 ", "📁 ", "⚠️  [Permission Denied]"
dirGlyph == <<128194, 32>>
fileGlyph == <<128196, 32>>
rootGlyph == <<128193, 32>>
deniedText ==
    <<9888, 65039, 32, 32, 91, 80, 101, 114, 109, 105, 115, 115, 105, 111, 110,
      32, 68, 101, 110, 105, 101, 100, 93>>
slash == <<47>>

\* str.lower() on one character (the names of the model are ASCII)
LowerChar(c) == IF c >= 65 /\ c <= 90 THEN c + 32 ELSE c

Lower(s) == [i \in 1..Len(s) |-> LowerChar(s[i])]

\* s < t for Python strings: lexicographic by code point
RECURSIVE StrLess(_, _)
StrLess(s, t) ==
    IF t = <<>> THEN FALSE
    ELSE IF s = <<>> THEN TRUE
    ELSE IF s[1] < t[1] THEN TRUE
    ELSE IF s[1] > t[1] THEN FALSE
    ELSE StrLess(Tail(s), Tail(t))

\* "❌ Error: The path 'p' is not a valid directory."
errorMsg ==
    <<10060, 32, 69, 114, 114, 111, 114, 58, 32, 84, 104, 101, 32, 112, 97, 116,
      104, 32, 39, 112, 39, 32, 105, 115, 32, 110, 111, 116, 32, 97, 32, 118, 97,
      108, 105, 100, 32, 100, 105, 114, 101, 99, 116, 111, 114, 121, 46>>

\* "✅ Folder structure successfully exported to 'folder_structure.txt'"
successMsg ==
    <<9989, 32, 70, 111, 108, 100, 101, 114, 32, 115, 116, 114, 117, 99, 116,
      117, 114, 101, 32, 115, 117, 99, 99, 101, 115, 115, 102, 117, 108, 108,
      121, 32, 101, 120, 112, 111, 114, 116, 101, 100, 32, 116, 111, 32, 39, 102,
      111, 108, 100, 101, 114, 95, 115, 116, 114, 117, 99, 116, 117, 114, 101,
      46, 116, 120, 116, 39>>

\* a line of an output file left by something else: "old"
oldLine == <<111, 108, 100>>

\* ------------------------------------------------------------------ state
VARIABLES
    n,            \* the entries below the root are the nodes 1..n; 0 is the root
    parent,       \* parent[x]: the directory holding entry x
    kind,         \* kind[x]: "dir", "file", "other" (neither), "missing" (root only)
    name,         \* name[x]
    denied,       \* directories whose listing raises PermissionError
    removed,      \* entries removed from the filesystem since the run began
    rev,          \* the filesystem returns listings in reverse order
    ignore_dir,   \* args.ignore_dir
    ignore_file,  \* args.ignore_file
    outFile,      \* the file at args.output_file: [exists, lines]
    outFile0,     \* that file as it was when main() was entered
    prevOut,      \* the output file as the previous run left it
    runs,         \* number of runs of main() started
    pc,           \* position of main()
    stdout,       \* what sys.stdout is bound to: "console" or "file"
    original_stdout, \* main's local of that name
    fopen,        \* the handle f is open
    console,      \* what was printed on the original standard output
    stack,        \* the frames of generate_tree, innermost last
    origin,       \* for each line of the file: the entry it was printed for
    events        \* the input/output events of the run, in order

vars == <<n, parent, kind, name, denied, removed, rev, ignore_dir, ignore_file,
          outFile, outFile0, prevOut, runs, pc, stdout, original_stdout, fopen,
          console, stack, origin, events>>

fsvars == <<n, parent, kind, name, denied, ignore_dir, ignore_file>>

\* ------------------------------------------------------- the filesystem
Nodes == 1..n

\* Path.is_dir(), Path.is_file(): False for a path that does not exist
is_dir(x) == x \notin removed /\ kind[x] = "dir"

is_file(x) == x \notin removed /\ kind[x] = "file"

\* the order in which the filesystem returns the entries: arbitrary
ListingOrder == [i \in 1..n |-> IF rev THEN n + 1 - i ELSE i]

\* list(dir_path.iterdir()) of a directory that can be listed
iterdir(d) == SelectSeq(ListingOrder, LAMBDA x : parent[x] = d /\ x \notin removed)

\* --------------------------------------------------------- generate_tree
final_ignore_dirs == DEFAULT_IGNORE_DIRS \cup ignore_dir

final_ignore_files == DEFAULT_IGNORE_FILES \cup ignore_file

\* Keep with the two ignore sets exchanged
Keep_sets_swapped(x) ==
    \/ is_dir(x) /\ name[x] \notin final_ignore_files
    \/ is_file(x) /\ name[x] \notin final_ignore_dirs

\* the condition of the filter comprehension
Keep(x) ==
    \/ is_dir(x) /\ name[x] \notin final_ignore_dirs
    \/ is_file(x) /\ name[x] \notin final_ignore_files

\* FilterItems looking at the name only, not at is_dir() and is_file()
FilterItems_by_name(items) ==
    SelectSeq(items, LAMBDA x : name[x] \notin final_ignore_dirs \cup final_ignore_files)

FilterItems(items) == SelectSeq(items, Keep)

\* KeyLess without .lower()
KeyLess_case_sensitive(x, y) ==
    IF is_file(x) # is_file(y)
    THEN is_file(y)
    ELSE StrLess(name[x], name[y])

\* key(x) < key(y) for key = (x.is_file(), x.name.lower()); False < True
KeyLess(x, y) ==
    IF is_file(x) # is_file(y)
    THEN is_file(y)
    ELSE StrLess(Lower(name[x]), Lower(name[y]))

\* list.sort is stable: an item goes behind the items whose key is not greater
RECURSIVE Insert(_, _)
Insert(s, x) ==
    IF s = <<>> THEN <<x>>
    ELSE IF KeyLess(x, s[1]) THEN <<x>> \o s
    ELSE <<s[1]>> \o Insert(Tail(s), x)

RECURSIVE SortItems(_)
SortItems(items) ==
    IF items = <<>> THEN <<>>
    ELSE Insert(SortItems(SubSeq(items, 1, Len(items) - 1)), items[Len(items)])

\* is_current_last against the listing as it was before the filter
is_current_last_unfiltered(i, items) ==
    i = Len(items) + Cardinality({x \in Nodes : parent[x] = parent[items[1]] /\ ~Keep(x)})

is_current_last(i, items) == i = Len(items)

Connector(i, items) == IF is_current_last(i, items) THEN last_branch ELSE branch

\* new_prefix that always continues the vertical bar
new_prefix_always_bar(prefix, i, items) == prefix \o bar

new_prefix(prefix, i, items) ==
    prefix \o (IF is_current_last(i, items) THEN space ELSE bar)

DirLine(prefix, i, items) ==
    prefix \o Connector(i, items) \o dirGlyph \o name[items[i]] \o slash

FileLine(prefix, i, items) ==
    prefix \o Connector(i, items) \o fileGlyph \o name[items[i]]

DeniedLine(prefix) == prefix \o branch \o deniedText

RootLine == rootGlyph \o name[0] \o slash

Call(d, prefix) ==
    [dir |-> d, prefix |-> prefix, listed |-> FALSE, items |-> <<>>, i |-> 1]

Top == stack[Len(stack)]

Pop == SubSeq(stack, 1, Len(stack) - 1)

\* print(...) of Python: the lines go to whatever sys.stdout is bound to
print(lines, who) ==
    IF stdout = "console"
    THEN /\ console' = console \o lines
         /\ events' = Append(events, "console")
         /\ UNCHANGED <<outFile, origin>>
    ELSE IF fopen
    THEN /\ outFile' = [outFile EXCEPT !.lines = @ \o lines]
         /\ origin' = origin \o who
         /\ events' = Append(events, "write")
         /\ UNCHANGED console
    ELSE /\ events' = Append(events, "ValueError")
         /\ UNCHANGED <<outFile, origin, console>>

\* where main() is after a print: a write to a closed file raises ValueError
after_print(next) == IF stdout = "file" /\ ~fopen THEN "crashed" ELSE next

\* ------------------------------------------------------------------ main
\* the check of the start path with exists() in place of is_dir()
ValidRootCheck_exists == 0 \notin removed /\ kind[0] # "missing"

\* start_path.is_dir()
ValidRootCheck == is_dir(0)

InvalidRoot ==
    /\ pc = "start"
    /\ ~ValidRootCheck
    /\ print(<<errorMsg>>, <<>>)
    /\ pc' = after_print("done")
    /\ UNCHANGED <<fsvars, removed, rev, outFile0, prevOut, runs, stdout,
                   original_stdout, fopen, stack>>

\* OpenOutput without sys.stdout = f
OpenOutput_no_redirect ==
    /\ pc = "start"
    /\ ValidRootCheck
    /\ original_stdout' = stdout
    /\ outFile' = [exists |-> TRUE, lines |-> <<>>]
    /\ origin' = <<>>
    /\ fopen' = TRUE
    /\ events' = Append(events, "open")
    /\ pc' = "root"
    /\ UNCHANGED <<fsvars, removed, rev, outFile0, prevOut, runs, console, stack,
                   stdout>>

\* the start path is a directory: original_stdout = sys.stdout;
\* open(args.output_file, "w"); sys.stdout = f
OpenOutput ==
    /\ pc = "start"
    /\ ValidRootCheck
    /\ original_stdout' = stdout
    /\ outFile' = [exists |-> TRUE, lines |-> <<>>]
    /\ origin' = <<>>
    /\ fopen' = TRUE
    /\ stdout' = "file"
    /\ events' = Append(events, "open")
    /\ pc' = "root"
    /\ UNCHANGED <<fsvars, removed, rev, outFile0, prevOut, runs, console, stack>>

\* print(f"📁 {start_path.resolve().name}/\n"), then the call of generate_tree
PrintRoot ==
    /\ pc = "root"
    /\ print(<<RootLine, <<>>>>, <<<<0, "root">>, <<0, "blank">>>>)
    /\ stack' = <<Call(0, <<>>)>>
    /\ pc' = after_print("walk")
    /\ UNCHANGED <<fsvars, removed, rev, outFile0, prevOut, runs, stdout,
                   original_stdout, fopen>>

\* iterdir succeeds: filter and sort
ListDir ==
    /\ pc = "walk" /\ stack # <<>> /\ ~Top.listed
    /\ is_dir(Top.dir) /\ Top.dir \notin denied
    /\ stack' = [stack EXCEPT ![Len(stack)] =
                    [@ EXCEPT !.listed = TRUE,
                              !.items = SortItems(FilterItems(iterdir(Top.dir)))]]
    /\ UNCHANGED <<fsvars, removed, rev, outFile, outFile0, prevOut, runs, pc,
                   stdout, original_stdout, fopen, console, origin, events>>

\* ListDenied without the except clause: the PermissionError leaves main()
ListDenied_uncaught ==
    /\ pc = "walk" /\ stack # <<>> /\ ~Top.listed
    /\ is_dir(Top.dir) /\ Top.dir \in denied
    /\ fopen' = FALSE
    /\ events' = Append(events, "close")
    /\ stack' = <<>>
    /\ pc' = "crashed"
    /\ UNCHANGED <<fsvars, removed, rev, outFile, outFile0, prevOut, runs, stdout,
                   original_stdout, console, origin>>

\* iterdir raises PermissionError: the marker line, and return
ListDenied ==
    /\ pc = "walk" /\ stack # <<>> /\ ~Top.listed
    /\ is_dir(Top.dir) /\ Top.dir \in denied
    /\ print(<<DeniedLine(Top.prefix)>>, <<<<Top.dir, "marker">>>>)
    /\ stack' = Pop
    /\ pc' = after_print("walk")
    /\ UNCHANGED <<fsvars, removed, rev, outFile0, prevOut, runs, stdout,
                   original_stdout, fopen>>

\* iterdir raises another OSError (the directory is gone): nothing catches it,
\* the with statement closes the file and the exception leaves main()
ListFails ==
    /\ pc = "walk" /\ stack # <<>> /\ ~Top.listed
    /\ ~is_dir(Top.dir)
    /\ fopen' = FALSE
    /\ events' = Append(events, "close")
    /\ stack' = <<>>
    /\ pc' = "crashed"
    /\ UNCHANGED <<fsvars, removed, rev, outFile, outFile0, prevOut, runs, stdout,
                   original_stdout, console, origin>>

\* one iteration of the loop, item.is_dir(): its line and the recursive call
EmitDir ==
    /\ pc = "walk" /\ stack # <<>> /\ Top.listed /\ Top.i <= Len(Top.items)
    /\ is_dir(Top.items[Top.i])
    /\ print(<<DirLine(Top.prefix, Top.i, Top.items)>>,
             <<<<Top.items[Top.i], "entry">>>>)
    /\ stack' = Append([stack EXCEPT ![Len(stack)].i = @ + 1],
                       Call(Top.items[Top.i],
                            new_prefix(Top.prefix, Top.i, Top.items)))
    /\ pc' = after_print("walk")
    /\ UNCHANGED <<fsvars, removed, rev, outFile0, prevOut, runs, stdout,
                   original_stdout, fopen>>

\* one iteration of the loop, the else branch
EmitFile ==
    /\ pc = "walk" /\ stack # <<>> /\ Top.listed /\ Top.i <= Len(Top.items)
    /\ ~is_dir(Top.items[Top.i])
    /\ print(<<FileLine(Top.prefix, Top.i, Top.items)>>,
             <<<<Top.items[Top.i], "entry">>>>)
    /\ stack' = [stack EXCEPT ![Len(stack)].i = @ + 1]
    /\ pc' = after_print("walk")
    /\ UNCHANGED <<fsvars, removed, rev, outFile0, prevOut, runs, stdout,
                   original_stdout, fopen>>

\* the loop is over: generate_tree returns
Return ==
    /\ pc = "walk" /\ stack # <<>> /\ Top.listed /\ Top.i > Len(Top.items)
    /\ stack' = Pop
    /\ UNCHANGED <<fsvars, removed, rev, outFile, outFile0, prevOut, runs, pc,
                   stdout, original_stdout, fopen, console, origin, events>>

\* the end of the with block
CloseOutput ==
    /\ pc = "walk" /\ stack = <<>>
    /\ fopen' = FALSE
    /\ events' = Append(events, "close")
    /\ pc' = "restore"
    /\ UNCHANGED <<fsvars, removed, rev, outFile, outFile0, prevOut, runs, stdout,
                   original_stdout, console, stack, origin>>

\* sys.stdout = original_stdout
RestoreStdout ==
    /\ pc = "restore"
    /\ stdout' = original_stdout
    /\ pc' = "confirm"
    /\ UNCHANGED <<fsvars, removed, rev, outFile, outFile0, prevOut, runs,
                   original_stdout, fopen, console, stack, origin, events>>

Confirm ==
    /\ pc = "confirm"
    /\ print(<<successMsg>>, <<<<0, "confirm">>>>)
    /\ pc' = after_print("done")
    /\ UNCHANGED <<fsvars, removed, rev, outFile0, prevOut, runs, stdout,
                   original_stdout, fopen, stack>>

\* ------------------------------------------------------- the environment
RECURSIVE Under(_, _)
\* x is d or lies below d
Under(x, d) == x = d \/ (x # 0 /\ Under(parent[x], d))

\* another process removes a directory, with all it holds, during the walk
RemoveDir ==
    /\ pc = "walk"
    /\ Cardinality({x \in removed : parent[x] \notin removed}) < MaxRemoved
    /\ \E d \in Nodes :
          /\ is_dir(d)
          /\ removed' = removed \cup {x \in Nodes : Under(x, d)}
    /\ UNCHANGED <<fsvars, rev, outFile, outFile0, prevOut, runs, pc, stdout,
                   original_stdout, fopen, console, stack, origin, events>>

\* the tool is run again with the same arguments on the same tree
Rerun ==
    /\ pc = "done" /\ runs < MaxRuns
    /\ runs' = runs + 1
    /\ prevOut' = outFile
    /\ outFile0' = outFile
    /\ rev' \in BOOLEAN
    /\ console' = <<>>
    /\ events' = <<>>
    /\ pc' = "start"
    /\ UNCHANGED <<fsvars, removed, outFile, stdout, original_stdout, fopen,
                   stack, origin>>

\* --------------------------------------------------------------- Init
\* the kinds and names an entry of a generated tree can have
Pool ==
    { <<"dir", na>>, <<"dir", nB>>, <<"dir", n_git>>,
      <<"file", n_a_txt>>, <<"file", n_b_txt>>, <<"other", n_sock>> }

\* what --ignore-dir and --ignore-file are given: nothing, or one name each
UserIgnores == { <<{}, {}>>, <<{nB}, {n_b_txt}>> }

NoFile == [exists |-> FALSE, lines |-> <<>>]

OldFile == [exists |-> TRUE, lines |-> <<oldLine>>]

\* a tree given by the parents, kinds and names of its entries, in listing order
Tree(ps, ks, ns) ==
    [n |-> Len(ps),
     parent |-> [x \in 0..Len(ps) |-> IF x = 0 THEN 0 ELSE ps[x]],
     kind |-> [x \in 0..Len(ps) |-> IF x = 0 THEN "dir" ELSE ks[x]],
     name |-> [x \in 0..Len(ps) |-> IF x = 0 THEN n_root ELSE ns[x]]]

\* {b.txt, A/, a.txt, B/} in one directory
SiblingsTree ==
    Tree(<<0, 0, 0, 0>>, <<"file", "dir", "file", "dir">>,
         <<n_b_txt, nA, n_a_txt, nB>>)

\* README.md and src/ holding main.py
ScenarioTree ==
    Tree(<<0, 0, 2>>, <<"file", "dir", "file">>, <<n_README_md, n_src, n_main_py>>)

\* A/ (B/ (a.txt), b.txt), a.txt: both ancestors of A/B/a.txt have a later sibling
DeepTree ==
    Tree(<<0, 0, 1, 1, 3>>, <<"dir", "file", "dir", "file", "file">>,
         <<nA, n_a_txt, nB, n_b_txt, n_a_txt>>)

\* A/ (B/ (a.txt)), a.txt: only the outer ancestor has a later sibling
OuterTree ==
    Tree(<<0, 0, 1, 3>>, <<"dir", "file", "dir", "file">>,
         <<nA, n_a_txt, nB, n_a_txt>>)

\* A/ (B/ (a.txt), b.txt): only the inner ancestor has a later sibling
InnerTree ==
    Tree(<<0, 1, 1, 2>>, <<"dir", "dir", "file", "file">>,
         <<nA, nB, n_b_txt, n_a_txt>>)

\* .git/ (a.txt), B/ (a.txt), A/ (a.txt, .gitignore), b.txt
IgnoreTree ==
    Tree(<<0, 1, 0, 3, 0, 5, 5, 0>>,
         <<"dir", "file", "dir", "file", "dir", "file", "file", "file">>,
         <<n_git, n_a_txt, nB, n_a_txt, nA, n_a_txt, n_gitignore, n_b_txt>>)

\* A/, a/, .gitignore, a socket: two names that differ only in case
CaseTree ==
    Tree(<<0, 0, 0, 0>>, <<"dir", "dir", "file", "other">>,
         <<nA, na, n_gitignore, n_sock>>)

ExampleTrees ==
    {SiblingsTree, ScenarioTree, DeepTree, OuterTree, InnerTree, IgnoreTree,
     CaseTree}

\* every tree of at most MaxNodes entries over Pool, in every listing order,
\* and a start path that is a file or does not exist
GeneratedTree ==
    /\ n \in 0..MaxNodes
    /\ parent \in [0..n -> 0..MaxNodes]
    /\ \A x \in 0..n : IF x = 0 THEN parent[x] = 0 ELSE parent[x] < x
    /\ \E e \in [1..n -> Pool], r \in {"dir", "file", "missing"} :
          /\ r # "dir" => n = 0
          /\ kind = [x \in 0..n |-> IF x = 0 THEN r ELSE e[x][1]]
          /\ name = [x \in 0..n |-> IF x = 0 THEN n_root ELSE e[x][2]]
    /\ \A x \in 1..n : kind[parent[x]] = "dir"
    /\ \A x, y \in 1..n : (x # y /\ parent[x] = parent[y]) => name[x] # name[y]

ExampleTree ==
    \E t \in ExampleTrees :
       /\ n = t.n
       /\ parent = t.parent
       /\ kind = t.kind
       /\ name = t.name

Init ==
    /\ GeneratedTree \/ ExampleTree
    /\ denied \in SUBSET {x \in 0..n : kind[x] = "dir"}
    /\ Cardinality(denied) <= MaxDenied
    /\ removed = {}
    /\ rev = FALSE
    /\ \E u \in UserIgnores : ignore_dir = u[1] /\ ignore_file = u[2]
    /\ outFile \in {NoFile, OldFile}
    /\ outFile0 = outFile
    /\ prevOut = NoFile
    /\ runs = 1
    /\ pc = "start"
    /\ stdout = "console"
    /\ original_stdout = "console"
    /\ fopen = FALSE
    /\ console = <<>>
    /\ stack = <<>>
    /\ origin = <<>>
    /\ events = <<>>

Next ==
    \/ InvalidRoot
    \/ OpenOutput
    \/ PrintRoot
    \/ ListDir
    \/ ListDenied
    \/ EmitDir
    \/ EmitFile
    \/ Return
    \/ CloseOutput
    \/ RestoreStdout
    \/ Confirm

Spec == Init /\ [][Next]_vars

NextEnv == Next \/ RemoveDir \/ ListFails

SpecEnv == Init /\ [][NextEnv]_vars

NextRerun == Next \/ Rerun

SpecRerun == Init /\ [][NextRerun]_vars

\* ------------------------------------------------- what the claims speak of
\* the run came to its end with a valid root
Succeeded == pc = "done" /\ kind[0] = "dir"

\* the lines of the file after the root line and the blank line
Body == SubSeq(outFile.lines, 3, Len(outFile.lines))

EntryLines(x) == {k \in 1..Len(origin) : origin[k] = <<x, "entry">>}

MarkerLines(d) == {k \in 1..Len(origin) : origin[k] = <<d, "marker">>}

HasLine(x) == EntryLines(x) # {}

\* kept, as the specification defines it on the tree
KeptEntry(x) ==
    \/ kind[x] = "dir" /\ name[x] \notin (DEFAULT_IGNORE_DIRS \cup ignore_dir)
    \/ kind[x] = "file" /\ name[x] \notin (DEFAULT_IGNORE_FILES \cup ignore_file)

\* x and every directory between the root and x is kept
RECURSIVE PathKept(_)
PathKept(x) == x = 0 \/ (KeptEntry(x) /\ PathKept(parent[x]))

\* d and every directory between the root and d can be listed
RECURSIVE PathListable(_)
PathListable(d) == d \notin denied /\ (d = 0 \/ PathListable(parent[d]))

\* x is a non-ignored entry the walk reaches
Reached(x) == x # 0 /\ PathKept(x) /\ PathListable(parent[x])

\* the denied directories the walk tries to list
DeniedReached == {d \in denied : d = 0 \/ Reached(d)}

\* x is a directory named .git or lies below one
RECURSIVE InGit(_)
InGit(x) == x # 0 /\ ((kind[x] = "dir" /\ name[x] = n_git) \/ InGit(parent[x]))

\* the tree of the run is t
IsTree(t) == n = t.n /\ parent = t.parent /\ kind = t.kind /\ name = t.name

\* number of directories between the root and x
RECURSIVE Depth(_)
Depth(x) == IF parent[x] = 0 THEN 0 ELSE 1 + Depth(parent[x])

\* ---------------------------------------------------------------------- C1
\* C1 as stated: after a run over a tree whose root can be listed, an entry has
\* a line iff it and every directory on its path from the root are kept.
C1_AsStated ==
    (Succeeded /\ 0 \notin denied) => \A x \in Nodes : HasLine(x) <=> PathKept(x)

\* C1, amended: after a run, an entry has a line iff it and every directory on
\* its path from the root are kept and no directory on that path, the root
\* included, has a denied listing; nothing in or below a directory named .git
\* has a line; the ignore sets in use contain the defaults and the user's names.
C1_KeptIffLine ==
    /\ DEFAULT_IGNORE_DIRS \cup ignore_dir \subseteq final_ignore_dirs
    /\ DEFAULT_IGNORE_FILES \cup ignore_file \subseteq final_ignore_files
    /\ \A x \in Nodes : InGit(x) => ~HasLine(x)
    /\ Succeeded => \A x \in Nodes : HasLine(x) <=> Reached(x)

\* a finished run with --ignore-dir B over .git/ (a.txt), B/ (a.txt),
\* A/ (a.txt, .gitignore), b.txt: of the files below a directory only A/a.txt
\* has a line
C1_Witness ==
    /\ Succeeded /\ IsTree(IgnoreTree) /\ denied = {} /\ ignore_dir = {nB}
    /\ HasLine(5) /\ HasLine(6)
    /\ ~HasLine(1) /\ ~HasLine(2) /\ ~HasLine(3) /\ ~HasLine(4)

\* ---------------------------------------------------------------------- C2
\* s <= t after both are lowercased, letter by letter
RECURSIVE CaseInsensitiveLeq(_, _)
CaseInsensitiveLeq(s, t) ==
    IF s = <<>> THEN TRUE
    ELSE IF t = <<>> THEN FALSE
    ELSE LET a == IF s[1] \in 65..90 THEN s[1] + 32 ELSE s[1]
             b == IF t[1] \in 65..90 THEN t[1] + 32 ELSE t[1]
         IN  IF a # b THEN a < b ELSE CaseInsensitiveLeq(Tail(s), Tail(t))

\* "├── 📂 A/", "├── 📂 B/", "├── 📄 a.txt", "└── 📄 b.txt"
SiblingsBody ==
    << <<9500, 9472, 9472, 32, 128194, 32, 65, 47>>,
       <<9500, 9472, 9472, 32, 128194, 32, 66, 47>>,
       <<9500, 9472, 9472, 32, 128196, 32, 97, 46, 116, 120, 116>>,
       <<9492, 9472, 9472, 32, 128196, 32, 98, 46, 116, 120, 116>> >>

\* C2: of two entries of one directory, the one emitted first is a directory
\* or both are files, and when they are of one kind its name is not after the
\* other's in case-insensitive order; {b.txt, A/, a.txt, B/} gives A/, B/,
\* a.txt, b.txt.
C2_SiblingOrder ==
    /\ \A k, l \in 1..Len(origin) :
          (/\ k < l
           /\ origin[k][2] = "entry" /\ origin[l][2] = "entry"
           /\ parent[origin[k][1]] = parent[origin[l][1]])
          => LET x == origin[k][1]
                 y == origin[l][1]
             IN  /\ kind[x] = "file" => kind[y] = "file"
                 /\ kind[x] = kind[y] => CaseInsensitiveLeq(name[x], name[y])
    /\ (Succeeded /\ IsTree(SiblingsTree) /\ denied = {} /\ ignore_dir = {})
          => Body = SiblingsBody

\* a finished run over {b.txt, A/, a.txt, B/} with all four emitted
C2_Witness ==
    /\ Succeeded /\ IsTree(SiblingsTree)
    /\ \A x \in Nodes : HasLine(x)

\* ---------------------------------------------------------------------- C3
\* C3 as stated: the body has one line per reached entry whose listing is not
\* denied and one marker line per denied directory, and nothing has two lines.
C3_AsStated ==
    Succeeded =>
       /\ Len(Body) = Cardinality({x \in Nodes : Reached(x)} \ denied)
                      + Cardinality(DeniedReached)
       /\ \A k, l \in 3..Len(origin) : origin[k][1] = origin[l][1] => k = l

\* C3, amended: the body has one line per reached non-ignored entry, a denied
\* directory included, plus one marker line per directory whose listing was
\* denied; every line that is no marker is the line of one reached entry, and
\* no entry has two such lines.
C3_LineCount ==
    Succeeded =>
       /\ Len(Body) = Cardinality({x \in Nodes : Reached(x)})
                      + Cardinality(DeniedReached)
       /\ Len(origin) = Len(outFile.lines)
       /\ \A k \in 3..Len(origin) :
             \/ origin[k][2] = "entry" /\ Reached(origin[k][1])
             \/ origin[k][2] = "marker" /\ origin[k][1] \in DeniedReached
       /\ \A k, l \in 1..Len(origin) : origin[k] = origin[l] => k = l

\* a finished run with a denied directory below the root, an ignored entry,
\* an entry that is neither file nor directory, and a kept file
C3_Witness ==
    /\ Succeeded
    /\ \E d \in DeniedReached : d # 0
    /\ \E x \in Nodes : kind[x] = "other"
    /\ \E x \in Nodes : kind[x] = "file" /\ HasLine(x)

\* ---------------------------------------------------------------------- C4
\* C4: with a start path that is no directory the output file is never
\* opened or changed, nothing but the error message is printed, and main
\* ends having printed exactly that message.
C4_InvalidRoot ==
    kind[0] # "dir" =>
       /\ outFile = outFile0
       /\ ~fopen /\ stdout = "console"
       /\ origin = <<>>
       /\ \A i \in 1..Len(events) : events[i] = "console"
       /\ \A i \in 1..Len(console) : console[i] = errorMsg
       /\ pc \in {"start", "done"}
       /\ pc = "done" => console = <<errorMsg>>

\* main returned on a missing start path while an older output file exists
C4_Witness ==
    /\ pc = "done" /\ kind[0] = "missing"
    /\ outFile0 = OldFile /\ console = <<errorMsg>>

\* ---------------------------------------------------------------------- C5
\* x lies below d, and is not d
Below(x, d) == x # d /\ Under(x, d)

\* C5: the walk never aborts on a denied listing (main is never left by an
\* exception); after the run each
\* denied directory the walk came to has exactly one marker line, which stands
\* right behind the directory's own line (behind the blank line for the root)
\* and is the marker text behind one prefix token per directory above, nothing
\* below that directory has a line, every other reached entry has its line,
\* and the confirmation was printed.
C5_DeniedIsLocal ==
    /\ pc # "crashed"
    /\ Succeeded =>
          /\ console = <<successMsg>>
          /\ \A d \in DeniedReached :
                /\ Cardinality(MarkerLines(d)) = 1
                /\ \A k \in MarkerLines(d) :
                      /\ origin[k - 1] = IF d = 0 THEN <<0, "blank">> ELSE <<d, "entry">>
                      /\ Len(outFile.lines[k]) =
                            4 * (IF d = 0 THEN 0 ELSE Depth(d) + 1) + 4 + Len(deniedText)
                      /\ SubSeq(outFile.lines[k], Len(outFile.lines[k]) - Len(deniedText) + 1,
                                Len(outFile.lines[k])) = deniedText
                /\ \A x \in Nodes : Below(x, d) => ~HasLine(x)
          /\ \A d \in (0..n) \ DeniedReached : MarkerLines(d) = {}
          /\ \A x \in Nodes : Reached(x) => HasLine(x)

\* a finished run over the same tree with A/ denied: the marker of A/ is
\* followed by the lines of its later sibling B/ and of B/a.txt
C5_Witness ==
    /\ Succeeded /\ IsTree(IgnoreTree) /\ denied = {5} /\ ignore_dir = {}
    /\ \E k \in MarkerLines(5), l \in EntryLines(4) : k < l
    /\ console = <<successMsg>>

\* ---------------------------------------------------------------------- C6
\* the connector of the line of entry x, taken behind its prefix
ConnectorOf(x) ==
    LET k == CHOOSE k \in EntryLines(x) : TRUE
    IN  SubSeq(outFile.lines[k], 4 * Depth(x) + 1, 4 * Depth(x) + 4)

\* no entry of x's directory has its line after x's
LastEmitted(x) ==
    \A y \in Nodes :
       (parent[y] = parent[x] /\ HasLine(y)) =>
          \A k \in EntryLines(x), l \in EntryLines(y) : l <= k

\* C6: after a run, the entry emitted last in its directory (the last of the
\* filtered, sorted list) has the connector "└── " and every other emitted entry
\* has "├── ": each directory with an emitted entry has exactly one line with
\* the last connector.
C6_Connectors ==
    Succeeded =>
       /\ \A x \in Nodes :
             HasLine(x) =>
                ConnectorOf(x) = IF LastEmitted(x) THEN last_branch ELSE branch
       /\ \A d \in 0..n :
             (\E x \in Nodes : parent[x] = d /\ HasLine(x)) =>
                Cardinality({x \in Nodes : /\ parent[x] = d /\ HasLine(x)
                                           /\ ConnectorOf(x) = last_branch}) = 1

\* a finished run over the same tree: A/a.txt has the last connector although
\* the ignored A/.gitignore is listed behind it, and A/ itself the branch one
C6_Witness ==
    /\ Succeeded /\ IsTree(IgnoreTree) /\ denied = {} /\ ignore_dir = {}
    /\ HasLine(6) /\ ~HasLine(7) /\ ConnectorOf(6) = last_branch
    /\ HasLine(5) /\ ConnectorOf(5) = branch

\* ---------------------------------------------------------------------- C8
\* one token per directory between the root and x, outermost first
RECURSIVE ExpectedPrefix(_)
ExpectedPrefix(x) ==
    IF parent[x] = 0 THEN <<>>
    ELSE ExpectedPrefix(parent[x])
            \o (IF LastEmitted(parent[x]) THEN <<32, 32, 32, 32>> ELSE <<9474, 32, 32, 32>>)

\* "├── 📂 src/", "│   └── 📄 main.py", "└── 📄 README.md"
ScenarioBody ==
    << <<9500, 9472, 9472, 32, 128194, 32, 115, 114, 99, 47>>,
       <<9474, 32, 32, 32, 9492, 9472, 9472, 32, 128196, 32, 109, 97, 105, 110, 46, 112, 121>>,
       <<9492, 9472, 9472, 32, 128196, 32, 82, 69, 65, 68, 77, 69, 46, 109, 100>> >>

\* C8: after a run the line of an entry at depth d is d four-character tokens
\* (four spaces for an ancestor emitted last in its directory, "│   " for any
\* other), a connector, and the glyph and name, with "/" behind a directory's
\* name; the lines printed for what lies in a directory follow its own line
\* without a gap; src/ (main.py) and README.md give the body of the scenario.
C8_PrefixTokens ==
    /\ Succeeded =>
          \A x \in Nodes : \A k \in EntryLines(x) :
             LET line == outFile.lines[k]
                 d == Depth(x)
             IN  /\ Len(line) >= 4 * d + 4
                 /\ SubSeq(line, 1, 4 * d) = ExpectedPrefix(x)
                 /\ SubSeq(line, 4 * d + 1, 4 * d + 4) \in {branch, last_branch}
                 /\ SubSeq(line, 4 * d + 5, Len(line)) =
                       IF kind[x] = "dir"
                       THEN <<128194, 32>> \o name[x] \o <<47>>
                       ELSE <<128196, 32>> \o name[x]
                 /\ \A l \in 3..Len(origin) :
                       (origin[l] = <<x, "marker">> \/ Below(origin[l][1], x)) =>
                          /\ k < l
                          /\ \A i \in (k + 1)..l : Under(origin[i][1], x)
    /\ (Succeeded /\ IsTree(ScenarioTree) /\ denied = {}) => Body = ScenarioBody

\* a finished run with an entry two directories down whose ancestors both
\* have a later sibling, and one whose ancestors are both last
C8_Witness ==
    /\ Succeeded /\ IsTree(DeepTree)
    /\ HasLine(5) /\ ExpectedPrefix(5) = bar \o bar
    /\ HasLine(4) /\ ExpectedPrefix(4) = bar

\* ---------------------------------------------------------------------- C9
\* number of write events
Writes == Cardinality({i \in 1..Len(events) : events[i] = "write"})

\* C9: in a run with a valid root the file is opened once, before anything
\* else, and then holds nothing; the first write puts the root line and a
\* blank line; writes happen only while the file is open, and every line of
\* the file comes from one; the console is printed on only once, right after
\* the close, with the confirmation; a finished run ends open, writes, close,
\* confirmation.
C9_EventOrder ==
    kind[0] = "dir" =>
       /\ \A i \in 1..Len(events) :
             /\ events[i] = "open" <=> i = 1
             /\ events[i] \in {"open", "write", "close", "console"}
             /\ events[i] \in {"write", "close"} =>
                   \A j \in 1..(i - 1) : events[j] \in {"open", "write"}
             /\ events[i] = "console" =>
                   /\ i = Len(events) /\ events[i - 1] = "close"
       /\ events = <<>> => outFile = outFile0 /\ ~fopen
       /\ events # <<>> =>
             /\ outFile.exists
             /\ fopen <=> \A i \in 1..Len(events) : events[i] # "close"
             /\ Len(outFile.lines) = IF Writes = 0 THEN 0 ELSE Writes + 1
             /\ Writes > 0 => /\ outFile.lines[1] = <<128193, 32>> \o name[0] \o <<47>>
                              /\ outFile.lines[2] = <<>>
       /\ console = IF events # <<>> /\ events[Len(events)] = "console"
                    THEN <<successMsg>> ELSE <<>>
       /\ pc = "done" =>
             /\ Len(events) >= 4
             /\ events[Len(events)] = "console"

\* a finished run that replaced an older file and wrote tree lines
C9_Witness ==
    /\ Succeeded /\ outFile0 = OldFile
    /\ Writes >= 3 /\ console = <<successMsg>>

\* --------------------------------------------------------------------- C10
\* C10: when main has ended, by returning or by an exception, sys.stdout is
\* the stream it was before the run.
C10_StdoutRestored == pc \in {"done", "crashed"} => stdout = "console"

\* ---------------------------------------------------------------------- C7
\* C7: a second run with the same arguments on the unchanged tree leaves the
\* output file as the first run left it, whatever order the listings come in.
C7_SameOutput == (runs = 2 /\ Succeeded) => outFile = prevOut

====
